---- MODULE Spec2Model ----
(***************************************************************************)
(* aiomanhole: a remote console served from inside an asyncio process.     *)
(*                                                                         *)
(* Part 1 models StatefulCommandCompiler (the buffering compiler).         *)
(* Part 2 models the interpreter sessions, the factory, the worker pool    *)
(* used by ThreadedInteractiveInterpreter and the process-wide sys.stdout. *)
(*                                                                         *)
(* A text is a sequence of lines; the bytes of the compiler's buffer are   *)
(* the lines joined by "\n".  The empty sequence is the empty buffer.      *)
(***************************************************************************)
EXTENDS Integers, Sequences, FiniteSets, TLC

(***************************************************************************)
(* Bounds of the model.                                                    *)
(***************************************************************************)
\* most lines a standalone compiler's buffer holds before a feed
MaxBuf == 4

(***************************************************************************)
(* Lines a client can send (already stripped of the trailing newline).     *)
(***************************************************************************)
SimpleLines == {"f = 5", "5", "import asyncio", "x = 5", "x", "_", "101",
                "print('hello')", "1/0", "exit()"}
HeaderLines == {"if False:", "for i in range(2):", "while False:"}
DefLines    == {"def foo():", "class Foo:"}
DecoLines   == {"@decorated"}
TryLines    == {"try:"}
ClauseLines == {"except:"}
BodyLines   == {"    pass", "    raise Exception"}
BlankLines  == {""}
BadLines    == {"x = = 5"}
\* bytes that are not valid UTF-8 (b'\xff')
UndecLines  == {"\\xff"}

AllLines == SimpleLines \cup HeaderLines \cup DefLines \cup DecoLines \cup TryLines
            \cup ClauseLines \cup BodyLines \cup BlankLines \cup BadLines \cup UndecLines

\* The lexical kind of a line: what the tokenizer/parser sees of it.
Kind(line) ==
    CASE line \in SimpleLines -> "Simple"
      [] line \in HeaderLines -> "Header"
      [] line \in DefLines    -> "Def"
      [] line \in DecoLines   -> "Deco"
      [] line \in TryLines    -> "Try"
      [] line \in ClauseLines -> "Clause"
      [] line \in BodyLines   -> "Body"
      [] line \in BlankLines  -> "Blank"
      [] line \in UndecLines  -> "Undec"
      [] OTHER                -> "Bad"

(***************************************************************************)
(* codeop.CommandCompiler on a text, symbol "single".  The parser is       *)
(* followed line by line; blank lines do not change the parse state.       *)
(***************************************************************************)
ParseStep(st, k) ==
    CASE st = "Start" ->
            (CASE k = "Simple" -> "Stmt"
               [] k \in {"Header", "Def"} -> "Head"
               [] k = "Deco" -> "Dec"
               [] k = "Try" -> "TryHead"
               [] OTHER -> "Err")
      [] st = "Dec" ->
            (CASE k = "Deco" -> "Dec"
               [] k = "Def" -> "Head"
               [] OTHER -> "Err")
      [] st = "Head" -> IF k = "Body" THEN "Block" ELSE "Err"
      [] st = "Block" -> IF k = "Body" THEN "Block" ELSE "Err"
      [] st = "TryHead" -> IF k = "Body" THEN "TryBody" ELSE "Err"
      [] st = "TryBody" ->
            (CASE k = "Body" -> "TryBody"
               [] k = "Clause" -> "ExcHead"
               [] OTHER -> "Err")
      [] st = "ExcHead" -> IF k = "Body" THEN "ExcBlock" ELSE "Err"
      [] st = "ExcBlock" ->
            (CASE k = "Body" -> "ExcBlock"
               [] k = "Clause" -> "ExcDup"
               [] OTHER -> "Err")
      [] OTHER -> "Err"

RECURSIVE ParseState(_)
ParseState(text) ==
    IF text = <<>> THEN "Start"
    ELSE LET st == ParseState(SubSeq(text, 1, Len(text) - 1))
             k  == Kind(text[Len(text)])
         IN  IF k = "Blank" THEN st ELSE ParseStep(st, k)

\* self.buf.getvalue().decode('utf8') raises UnicodeDecodeError
DecodeFails(text) == \E i \in 1..Len(text) : Kind(text[i]) = "Undec"

\* "CODE": a code object; "PARTIAL": None (incomplete input);
\* "SYN": SyntaxError raised.
CommandCompiler(text) ==
    LET st == ParseState(text) IN
    CASE st = "Err" -> "SYN"
      [] st \in {"Start", "Stmt"} -> "CODE"
      [] st \in {"Block", "ExcBlock"} /\ text[Len(text)] = "" -> "CODE"
      [] OTHER -> "PARTIAL"

(***************************************************************************)
(* StatefulCommandCompiler                                                 *)
(***************************************************************************)
is_partial_command(buf) == buf # <<>>

\* buf.write(b'\n') if the buffer is not empty, then buf.write(source)
BufWrite(buf, source) ==
    IF is_partial_command(buf) THEN Append(buf, source)
    ELSE IF source = "" THEN <<>> ELSE <<source>>

reset(buf) == <<>>

\* StatefulCommandCompiler.__call__: the result and the buffer it leaves.
\* res is "CODE", "PARTIAL", or the exception that leaves the call:
\* "SYN" (SyntaxError) or "DEC" (UnicodeDecodeError).
\* (first, the call without its reset() after a code object)
FeedNoReset(buf, source) ==
    LET text == BufWrite(buf, source)
        res  == IF DecodeFails(text) THEN "DEC" ELSE CommandCompiler(text)
    IN  [res |-> res, code |-> IF res = "CODE" THEN text ELSE <<>>, buf |-> text]

\* a compiler that forgets the lines of an incomplete command
FeedDropsPartial(buf, source) ==
    LET text == BufWrite(buf, source)
        res  == IF DecodeFails(text) THEN "DEC" ELSE CommandCompiler(text)
    IN  [res |-> res, code |-> IF res = "CODE" THEN text ELSE <<>>,
         buf |-> IF res = "PARTIAL" THEN <<source>> ELSE reset(text)]

\* a compiler that clears its buffer when the compilation fails
FeedResetOnError(buf, source) ==
    LET text == BufWrite(buf, source)
        res  == IF DecodeFails(text) THEN "DEC" ELSE CommandCompiler(text)
    IN  [res |-> res, code |-> IF res = "CODE" THEN text ELSE <<>>,
         buf |-> IF res = "PARTIAL" THEN text ELSE reset(text)]

Feed(buf, source) ==
    LET text == BufWrite(buf, source)
        res  == IF DecodeFails(text) THEN "DEC" ELSE CommandCompiler(text)
    IN  [res  |-> res,
         code |-> IF res = "CODE" THEN text ELSE <<>>,
         buf  |-> IF res = "CODE" THEN reset(text) ELSE text]

(***************************************************************************)
(* A standalone compiler, driven as the unit tests drive it.               *)
(***************************************************************************)
VARIABLES
    cbuf,    \* the compiler's buffer
    cres,    \* outcome of the last call: "CODE", "PARTIAL", "SYN", "DEC"; "NONE" initially or after reset()
    ccode,   \* text of the last code object returned
    cprev,   \* the buffer before the last call
    cline,   \* the line of the last call
    cinput   \* the lines this client draws from

cvars == <<cbuf, cres, ccode, cprev, cline, cinput>>

\* The block constructs of the tests, without their terminating blank line.
Blocks == { <<"try:", "    raise Exception", "except:", "    pass">>,
            <<"for i in range(2):", "    pass">>,
            <<"while False:", "    pass">>,
            <<"class Foo:", "    pass">>,
            <<"def foo():", "    pass">>,
            <<"if False:", "    pass">>,
            <<"@decorated", "def foo():", "    pass">> }

Range(f) == { f[i] : i \in DOMAIN f }

\* The lines one client of the compiler draws from.
InputSets == { Range(b) \cup {"", "x = = 5"} : b \in Blocks }
             \cup { {"f = 5", "5", "import asyncio", "", "x = = 5", "\\xff"} }

(***************************************************************************)
(* Part 2: sessions.                                                       *)
(***************************************************************************)
\* bounds
NumSessions == 2
\* lines read by all sessions together
MaxReads == 2
\* code objects executed by all sessions together
MaxJobs == 2
\* threads of the loop's default executor
PoolSize == 2

\* ThreadedInteractiveInterpreter.__init__: command_timeout=5
DefaultTimeout == 5

Sessions == 1..NumSessions
\* a command of a session: <<session, number of the line that completed it>>
Ids == Sessions \X (1..MaxReads)
NoId == <<0, 0>>
\* the host's real standard output, as a target of sys.stdout
Host == NoId
\* a name without a binding
Unset == 0

\* The lines the clients of the sessions send.
SessionLines == {"x = 5", "x", "print('hello')", "1/0", "exit()",
                 "if False:", "", "x = = 5", "\\xff"}

VARIABLES
    threaded,         \* start_manhole(threaded=...)
    shared,           \* start_manhole(shared=...)
    command_timeout,  \* start_manhole(command_timeout=...); 0: no timeout
    banner,           \* the banner bytes; "" when none
    loop,             \* the event loop: "running", or "stopped" once an exception left run_forever
    pc,               \* where each session's coroutine is suspended
    conn,             \* each client's transport, as the session last saw it: "up" or "lost"
    buf,              \* each session's compiler buffer
    out,              \* what each session wrote to its writer since its last read
    reads,            \* lines each session has read
    code,             \* the code object each session is executing
    namespace,        \* namespace[0]: the factory's mapping; namespace[s]: session s's copy
    builtins,         \* the value of builtins._ (Unset when there is none)
    sys_stdout,       \* the process-wide sys.stdout: Host or the StringIO of a command
    saved,            \* redirect_stdout's saved target, per session
    capture,          \* the content of each session's current StringIO
    hostout,          \* the sessions whose commands' text reached the host's real stdout
    workers,          \* the executor's work item of each command
    workq,            \* the executor's queue of work items
    jobs,             \* code objects handed to run_command so far
    result,           \* how each session's last step ended, and the lines of the text it compiled
    binders           \* the sessions whose commands have assigned x

svars == <<threaded, shared, command_timeout, banner, loop, pc, conn, buf, out, reads,
           code, namespace, builtins, sys_stdout, saved, capture, hostout, workers,
           workq, jobs, result, binders>>

vars == <<cvars, svars>>

(***************************************************************************)
(* Wire items: t is the kind of bytes, e the exception of a traceback,     *)
(* w the command whose execution produced the text, late whether that      *)
(* command had already timed out when it produced the text.                *)
(***************************************************************************)
Item(t) == [t |-> t, e |-> "", w |-> NoId, late |-> FALSE]
Traceback(e) == [t |-> "Traceback", e |-> e, w |-> NoId, late |-> FALSE]
Text(t, w, late) == [t |-> t, e |-> "", w |-> w, late |-> late]

\* exceptions that are not subclasses of Exception
BaseExceptions == {"SystemExit"}

(***************************************************************************)
(* eval(codeobj, namespace) of a code object compiled with symbol "single".*)
(* ns is the namespace, bi the value of builtins._ .  An expression        *)
(* statement goes through sys.displayhook, which writes the repr to        *)
(* sys.stdout and sets builtins._ ; eval itself returns None.              *)
(***************************************************************************)
Seed == [x |-> 1]

\* a global name is looked up in the namespace, then in builtins
Lookup(ns, bi, name) ==
    IF name = "x" THEN ns.x ELSE bi

Eval(text, ns, bi, w, late) ==
    LET stmt == IF text = <<>> THEN "" ELSE text[1]
        none == [ns |-> ns, bi |-> bi, writes |-> <<>>, exc |-> "none"]
    IN  CASE stmt = "x = 5" -> [none EXCEPT !.ns = [ns EXCEPT !.x = 5]]
          [] stmt \in {"x", "_"} ->
                LET v == Lookup(ns, bi, stmt) IN
                IF v = Unset THEN [none EXCEPT !.exc = "NameError"]
                ELSE [none EXCEPT !.bi = v, !.writes = <<Text("repr", w, late)>>]
          [] stmt = "print('hello')" -> [none EXCEPT !.writes = <<Text("print", w, late)>>]
          [] stmt = "1/0" -> [none EXCEPT !.exc = "ZeroDivisionError"]
          [] stmt = "exit()" -> [none EXCEPT !.exc = "SystemExit"]
          [] OTHER -> none

(***************************************************************************)
(* The session coroutine between two suspensions.  A local state L is      *)
(* [pc, out, buf]; c is the state of the session's transport while the     *)
(* coroutine runs: "up"; "eof", the peer has closed its side (readline     *)
(* returns b''); "reset", the connection is lost (drain and readline raise *)
(* ConnectionResetError); "broken", it is lost with another error (they    *)
(* raise it, e.g. BrokenPipeError); "wait", the transport is closing or is *)
(* paused by flow control (drain suspends: it sleeps once, or waits for    *)
(* the transport to resume or to be lost).                                 *)
(***************************************************************************)
Transports == {"up", "eof", "reset", "broken", "wait"}

\* where a session is suspended in writer.drain(): after the banner, after a
\* prompt, after a response (send_output or send_exception)
DrainPcs == {"drain_banner", "drain_prompt", "drain_response"}

\* StreamWriter.drain(): the exception it raises, "none" when it returns
DrainError(c) ==
    CASE c = "reset"  -> "ConnectionResetError"
      [] c = "broken" -> "BrokenPipeError"
      [] OTHER        -> "none"

\* the banners start_manhole is given: none (get_banner gives b''), or a text
Banners == {"", "banner"}

\* write_prompt that always writes sys.ps1
PromptAlwaysPrimary(b) == Item("ps1")

\* write_prompt: the bytes written
PromptItem(b) == IF is_partial_command(b) THEN Item("ps2") ELSE Item("ps1")

\* handle_one_command that goes to readline without write_prompt
HandleOneCommandNoPrompt(L, c) ==
    CASE c = "up" -> [L EXCEPT !.pc = "read"]
      [] c \in {"eof", "reset"} -> [L EXCEPT !.pc = "closed"]
      [] c = "wait" -> [L EXCEPT !.pc = "read"]
      [] OTHER -> [L EXCEPT !.pc = "spin"]

\* handle_one_command from the top of its loop to its next suspension, in
\* write_prompt's drain or in readline, under the two handlers of __call__: a
\* ConnectionResetError (raised by drain, or by read_command when readline
\* returns b'') closes the writer; any other Exception is printed and
\* handle_one_command starts again, and fails again without ever suspending.
HandleOneCommand(L, c) ==
    LET o == Append(L.out, PromptItem(L.buf)) IN
    CASE c = "up" -> [L EXCEPT !.out = o, !.pc = "read"]
      [] c \in {"eof", "reset"} -> [L EXCEPT !.out = o, !.pc = "closed"]
      [] c = "wait" -> [L EXCEPT !.out = o, !.pc = "drain_prompt"]
      [] OTHER -> [L EXCEPT !.out = o, !.pc = "spin"]

\* __call__ without its except ConnectionResetError clause: the error is
\* printed like any other and handle_one_command fails again at once
CaughtNoClose(L, c, exc) ==
    CASE exc \in BaseExceptions -> [L EXCEPT !.pc = "killed"]
      [] OTHER -> [L EXCEPT !.pc = "spin"]

\* __call__: an exception exc leaves handle_one_command
Caught(L, c, exc) ==
    CASE exc = "ConnectionResetError" -> [L EXCEPT !.pc = "closed"]
      [] exc \in BaseExceptions -> [L EXCEPT !.pc = "killed"]
      [] OTHER -> HandleOneCommand(L, c)

\* what follows the write of a response and its drain: the drain suspends, or
\* control is back at the top of handle_one_command's loop, or leaves through
\* __call__'s handlers
AfterDrain(L, c) ==
    CASE c = "wait" -> [L EXCEPT !.pc = "drain_response"]
      [] DrainError(c) = "none" -> HandleOneCommand(L, c)
      [] OTHER -> Caught(L, c, DrainError(c))

\* __call__ that writes no banner
WriteBannerNever(b) == <<>>

\* __call__: if self.banner: writer.write(self.banner)
WriteBanner(b) == IF b # "" THEN <<Item("banner")>> ELSE <<>>

\* __call__ from its start to the first suspension: the banner's drain is
\* outside the try, an exception it raises ends the task
Call(b, c) ==
    LET L == [pc |-> "created", buf |-> <<>>, out |-> WriteBanner(b)] IN
    CASE b = "" -> HandleOneCommand(L, c)
      [] c = "wait" -> [L EXCEPT !.pc = "drain_banner"]
      [] DrainError(c) # "none" -> [L EXCEPT !.pc = "died"]
      [] OTHER -> HandleOneCommand(L, c)

\* a suspended drain ends: it returns or raises what the transport has become
Resume(L, c) ==
    CASE L.pc = "drain_banner" ->
            IF DrainError(c) # "none" THEN [L EXCEPT !.pc = "died"]
            ELSE HandleOneCommand(L, c)
      [] L.pc = "drain_response" ->
            IF DrainError(c) # "none" THEN Caught(L, c, DrainError(c))
            ELSE HandleOneCommand(L, c)
      [] OTHER ->
            CASE DrainError(c) # "none" -> Caught(L, c, DrainError(c))
              [] c = "eof" -> [L EXCEPT !.pc = "closed"]
              [] OTHER -> [L EXCEPT !.pc = "read"]

\* send_exception without its compiler.reset()
send_exception_no_reset(L, c, e) ==
    AfterDrain([L EXCEPT !.out = Append(L.out, Traceback(e))], c)

send_exception(L, c, e) ==
    AfterDrain([L EXCEPT !.buf = reset(L.buf), !.out = Append(L.out, Traceback(e))], c)

\* send_output that writes the value whatever it is
send_output_any_value(L, c, value, stdout) ==
    LET o1 == Append(L.out, Item(value))
        o2 == IF stdout # <<>> THEN o1 \o stdout ELSE o1
    IN  AfterDrain([L EXCEPT !.out = o2], c)

\* send_output: '{!r}\n'.format(value) if value is not None, then stdout if any
send_output(L, c, value, stdout) ==
    LET o1 == IF value # "None" THEN Append(L.out, Item(value)) ELSE L.out
        o2 == IF stdout # <<>> THEN o1 \o stdout ELSE o1
    IN  AfterDrain([L EXCEPT !.out = o2], c)

\* run_command without its except clause
run_command_unhandled(L, c, exc, stdout) ==
    CASE exc = "none" -> send_output(L, c, "None", stdout)
      [] OTHER -> Caught(L, c, exc)

\* run_command after attempt_exec ended with exception exc ("none": it returned)
run_command(L, c, exc, stdout) ==
    CASE exc = "none" -> send_output(L, c, "None", stdout)
      [] exc \in BaseExceptions -> Caught(L, c, exc)
      [] OTHER -> send_exception(L, c, exc)

Local(s) == [pc |-> pc[s], out |-> out[s], buf |-> buf[s]]

RECURSIVE SumReads(_)
SumReads(S) ==
    IF S = {} THEN 0
    ELSE LET s == CHOOSE t \in S : TRUE IN reads[s] + SumReads(S \ {s})

\* the clients may send another line
MayRead == SumReads(Sessions) < MaxReads

\* the loop runs callbacks: it is neither stopped nor held by a coroutine that
\* never suspends
LoopRuns == loop = "running" /\ \A s \in Sessions : pc[s] # "spin"

SetLocal(s, L, c) ==
    /\ pc' = [pc EXCEPT ![s] = L.pc]
    /\ out' = [out EXCEPT ![s] = L.out]
    /\ buf' = [buf EXCEPT ![s] = L.buf]
    /\ conn' = [conn EXCEPT ![s] = IF c \in {"up", "wait"} THEN "up" ELSE "lost"]
    /\ loop' = IF L.pc = "killed" THEN "stopped" ELSE loop

Outcome(s, what, n) == result' = [result EXCEPT ![s] = [what |-> what, lines |-> n]]

\* the sessions that have assigned x once text has been evaluated for session s
Binders(s, text) == IF text = <<"x = 5">> THEN binders \cup {s} ELSE binders

\* a factory that hands its own mapping to every interpreter
NsOfFactory(s) == 0

\* the mapping session s executes against:
\* self.namespace if self.shared else dict(self.namespace)
NsOf(s) == IF shared THEN 0 ELSE s

\* _real_exec that does not wait for the execution it started
RealExecNoWait(thr) == "read"

\* where _real_exec suspends: on the executor's future, or at its bare yield
RealExecSuspends(thr) == IF thr THEN "await" ELSE "yield"

\* the StringIO of session t's current command is the target T
Live(T, t) == T = <<t, reads[t]>> /\ pc[t] \in {"yield", "await", "cancelling"}

\* sys.stdout.write while sys.stdout is T
WriteCapture(T, items) ==
    [t \in Sessions |-> IF Live(T, t) THEN capture[t] \o items ELSE capture[t]]

WriteHost(T, items, s) ==
    IF T = Host /\ items # <<>> THEN hostout \cup {s} ELSE hostout

\* work items
Idle == [st |-> "none", code |-> <<>>, exc |-> "none"]
\* the work items a thread is evaluating; an abandoned one belongs to a command
\* that has timed out
Running == {w \in Ids : workers[w].st \in {"running", "abandoned"}}

(***************************************************************************)
(* Actions                                                                 *)
(***************************************************************************)
\* InterpreterFactory.__call__: the interpreter gets its namespace and its
\* coroutine is scheduled
Factory(s) ==
    /\ LoopRuns
    /\ pc[s] = "new"
    /\ namespace' = IF shared THEN namespace
                    ELSE [namespace EXCEPT ![s] = namespace[0]]
    /\ pc' = [pc EXCEPT ![s] = "created"]
    /\ UNCHANGED <<threaded, shared, command_timeout, banner, loop, conn, buf, out, reads,
                   code, builtins, sys_stdout, saved, capture, hostout, workers, workq,
                   jobs, result, binders, cvars>>

\* InteractiveInterpreter.__call__ up to its first suspension
Connect(s, c) ==
    /\ LoopRuns
    /\ pc[s] = "created"
    /\ SetLocal(s, Call(banner, c), c)
    /\ Outcome(s, "connected", 0)
    /\ UNCHANGED <<threaded, shared, command_timeout, banner, reads, code, namespace,
                   builtins, sys_stdout, saved, capture, hostout, workers, workq, jobs,
                   binders, cvars>>

\* the session resumes from a drain that had suspended
Drained(s, c) ==
    /\ LoopRuns
    /\ pc[s] \in DrainPcs
    /\ SetLocal(s, Resume(Local(s), c), c)
    /\ UNCHANGED <<threaded, shared, command_timeout, banner, reads, code, namespace,
                   builtins, sys_stdout, saved, capture, hostout, workers, workq, jobs,
                   result, binders, cvars>>

\* read_command: readline returns b'' or raises the transport's exception
ReadFail(s, c) ==
    /\ LoopRuns
    /\ pc[s] = "read"
    /\ c \notin {"up", "wait"}
    /\ SetLocal(s, Caught([Local(s) EXCEPT !.out = <<>>], c,
                          IF c = "broken" THEN "BrokenPipeError"
                          ELSE "ConnectionResetError"), c)
    /\ Outcome(s, IF c = "eof" THEN "eof" ELSE "lost", 0)
    /\ UNCHANGED <<threaded, shared, command_timeout, banner, reads, code,
                   namespace, builtins, sys_stdout, saved, capture, hostout, workers,
                   workq, jobs, binders, cvars>>

\* read_command with a line that does not complete a command
ReadLine(s, line, c) ==
    /\ LoopRuns
    /\ pc[s] = "read"
    /\ MayRead
    /\ LET r == Feed(buf[s], line)
           L == [pc |-> "read", out |-> <<>>, buf |-> r.buf]
       IN  /\ r.res # "CODE"
           /\ SetLocal(s, CASE r.res = "SYN" -> send_exception(L, c, "SyntaxError")
                            [] r.res = "DEC" -> Caught(L, c, "UnicodeDecodeError")
                            [] OTHER -> HandleOneCommand(L, c), c)
           /\ Outcome(s, CASE r.res = "SYN" -> "SyntaxError"
                           [] r.res = "DEC" -> "UnicodeDecodeError"
                           [] OTHER -> "partial", Len(r.buf))
    /\ reads' = [reads EXCEPT ![s] = @ + 1]
    /\ UNCHANGED <<threaded, shared, command_timeout, banner, code, namespace,
                   builtins, sys_stdout, saved, capture, hostout, workers, workq, jobs,
                   binders, cvars>>

\* read_command returns a code object; run_command, attempt_exec enters
\* redirect_stdout, _real_exec suspends: at its yield (inline) or on the
\* executor's future (threaded)
Submit(s, line) ==
    /\ LoopRuns
    /\ pc[s] = "read"
    /\ MayRead
    /\ jobs < MaxJobs
    /\ LET r == Feed(buf[s], line)
           id == <<s, reads[s] + 1>>
       IN  /\ r.res = "CODE"
           /\ Outcome(s, "submitted", Len(r.code))
           /\ buf' = [buf EXCEPT ![s] = r.buf]
           /\ saved' = [saved EXCEPT ![s] = sys_stdout]
           /\ sys_stdout' = id
           /\ IF threaded
              THEN /\ workers' = [workers EXCEPT ![id] = [st |-> "queued", code |-> r.code, exc |-> "none"]]
                   /\ workq' = Append(workq, id)
                   /\ UNCHANGED code
              ELSE /\ UNCHANGED <<workers, workq>>
                   /\ code' = [code EXCEPT ![s] = r.code]
           /\ pc' = [pc EXCEPT ![s] = RealExecSuspends(threaded)]
    /\ out' = [out EXCEPT ![s] = <<>>]
    /\ capture' = [capture EXCEPT ![s] = <<>>]
    /\ reads' = [reads EXCEPT ![s] = @ + 1]
    /\ jobs' = jobs + 1
    /\ UNCHANGED <<threaded, shared, command_timeout, banner, loop, conn, namespace,
                   builtins, hostout, binders, cvars>>

\* InteractiveInterpreter._real_exec resumes from its yield: eval, then the rest
\* of attempt_exec and run_command
InlineExec(s, c) ==
    /\ LoopRuns
    /\ pc[s] = "yield"
    /\ LET id  == <<s, reads[s]>>
           ev  == Eval(code[s], namespace[NsOf(s)], builtins, id, FALSE)
           cap == WriteCapture(sys_stdout, ev.writes)
       IN  /\ namespace' = [namespace EXCEPT ![NsOf(s)] = ev.ns]
           /\ builtins' = ev.bi
           /\ hostout' = WriteHost(sys_stdout, ev.writes, s)
           /\ capture' = [cap EXCEPT ![s] = <<>>]
           /\ SetLocal(s, run_command(Local(s), c, ev.exc, cap[s]), c)
           /\ Outcome(s, IF ev.exc = "none" THEN "returned" ELSE ev.exc, 0)
    /\ binders' = Binders(s, code[s])
    /\ sys_stdout' = saved[s]
    /\ code' = [code EXCEPT ![s] = <<>>]
    /\ UNCHANGED <<threaded, shared, command_timeout, banner, reads, saved,
                   workers, workq, jobs, cvars>>

\* the free threads of the executor hold the oldest work items, one each, and
\* race to set them running: a thread sets the item it holds running.  An item
\* whose future the loop has cancelled, while the cancellation has not reached
\* the executor ("doomed"), runs as well.
WorkerStart(id) ==
    /\ \E i \in 1..Len(workq) :
          /\ workq[i] = id
          /\ i <= PoolSize - Cardinality(Running)
    /\ workq' = SelectSeq(workq, LAMBDA w : w # id)
    /\ workers' = [workers EXCEPT ![id].st =
                       IF workers[id].st = "doomed" THEN "abandoned" ELSE "running"]
    /\ UNCHANGED <<threaded, shared, command_timeout, banner, loop, pc, conn, buf, out,
                   reads, code, namespace, builtins, sys_stdout, saved, capture, hostout,
                   jobs, result, binders, cvars>>

\* the thread's eval returns or raises; the outcome is in the executor's
\* future ("finished") and has not reached the loop
WorkerFinish(id) ==
    /\ id \in Running
    /\ LET s    == id[1]
           late == workers[id].st = "abandoned"
           ev   == Eval(workers[id].code, namespace[NsOf(s)], builtins, id, late)
       IN  /\ namespace' = [namespace EXCEPT ![NsOf(s)] = ev.ns]
           /\ builtins' = ev.bi
           /\ hostout' = WriteHost(sys_stdout, ev.writes, s)
           /\ capture' = WriteCapture(sys_stdout, ev.writes)
           /\ workers' = [workers EXCEPT ![id] =
                             IF late THEN Idle
                             ELSE [st |-> "finished", code |-> <<>>, exc |-> ev.exc]]
    /\ binders' = Binders(id[1], workers[id].code)
    /\ UNCHANGED <<threaded, shared, command_timeout, banner, loop, pc, conn, buf, out,
                   reads, code, sys_stdout, saved, workq, jobs, result, cvars>>

\* the loop's callback copies the outcome to the future the session awaits
FutureDone(id) ==
    /\ LoopRuns
    /\ workers[id].st = "finished"
    /\ workers' = [workers EXCEPT ![id].st = "done"]
    /\ UNCHANGED <<threaded, shared, command_timeout, banner, loop, pc, conn, buf, out,
                   reads, code, namespace, builtins, sys_stdout, saved, capture, hostout,
                   workq, jobs, result, binders, cvars>>

\* ThreadedInteractiveInterpreter._real_exec resumes with the future's result
AwaitDone(s, c) ==
    /\ LoopRuns
    /\ pc[s] = "await"
    /\ workers[<<s, reads[s]>>].st = "done"
    /\ SetLocal(s, run_command(Local(s), c, workers[<<s, reads[s]>>].exc, capture[s]), c)
    /\ sys_stdout' = saved[s]
    /\ capture' = [capture EXCEPT ![s] = <<>>]
    /\ workers' = [workers EXCEPT ![<<s, reads[s]>>] = Idle]
    /\ Outcome(s, IF workers[<<s, reads[s]>>].exc = "none" THEN "returned"
                  ELSE workers[<<s, reads[s]>>].exc, 0)
    /\ UNCHANGED <<threaded, shared, command_timeout, banner, reads, code, namespace,
                   builtins, saved, hostout, workq, jobs, binders, cvars>>

\* asyncio.wait_for: the timeout passes and the future is not done; wait_for
\* cancels it and waits for the cancellation, inside redirect_stdout.  A work
\* item still queued is doomed, a running one goes on, the outcome of a
\* finished one is dropped.
TimeoutFire(s) ==
    /\ LoopRuns
    /\ pc[s] = "await"
    /\ command_timeout > 0
    /\ LET id == <<s, reads[s]>> IN
         /\ workers[id].st \in {"queued", "running", "finished"}
         /\ workers' = [workers EXCEPT ![id] =
                CASE workers[id].st = "queued" -> [@ EXCEPT !.st = "doomed"]
                  [] workers[id].st = "running" -> [@ EXCEPT !.st = "abandoned"]
                  [] OTHER -> Idle]
    /\ pc' = [pc EXCEPT ![s] = "cancelling"]
    /\ UNCHANGED <<threaded, shared, command_timeout, banner, loop, conn, buf, out, reads,
                   code, namespace, builtins, sys_stdout, saved, capture, hostout, workq,
                   jobs, result, binders, cvars>>

\* the cancellation reaches the executor: a work item still queued is removed
CancelQueued(id) ==
    /\ LoopRuns
    /\ workers[id].st = "doomed"
    /\ workers' = [workers EXCEPT ![id] = Idle]
    /\ workq' = SelectSeq(workq, LAMBDA w : w # id)
    /\ UNCHANGED <<threaded, shared, command_timeout, banner, loop, pc, conn, buf, out,
                   reads, code, namespace, builtins, sys_stdout, saved, capture, hostout,
                   jobs, result, binders, cvars>>

\* wait_for raises TimeoutError: attempt_exec leaves redirect_stdout, run_command
\* sends the exception
TimeoutRaise(s, c) ==
    /\ LoopRuns
    /\ pc[s] = "cancelling"
    /\ workers[<<s, reads[s]>>].st # "doomed"
    /\ SetLocal(s, run_command(Local(s), c, "TimeoutError", capture[s]), c)
    /\ sys_stdout' = saved[s]
    /\ capture' = [capture EXCEPT ![s] = <<>>]
    /\ Outcome(s, "TimeoutError", 0)
    /\ UNCHANGED <<threaded, shared, command_timeout, banner, reads, code, namespace,
                   builtins, saved, hostout, workers, workq, jobs, binders, cvars>>

\* start_manhole's arguments other than the banner, and the state before any
\* connection
SessionStart ==
    /\ threaded \in BOOLEAN
    /\ shared \in BOOLEAN
    /\ command_timeout \in IF threaded THEN {0, DefaultTimeout} ELSE {DefaultTimeout}
    /\ loop = "running"
    /\ pc = [s \in Sessions |-> "new"]
    /\ conn = [s \in Sessions |-> "up"]
    /\ buf = [s \in Sessions |-> <<>>]
    /\ out = [s \in Sessions |-> <<>>]
    /\ reads = [s \in Sessions |-> 0]
    /\ code = [s \in Sessions |-> <<>>]
    /\ namespace = [i \in 0..NumSessions |-> Seed]
    /\ builtins = Unset
    /\ sys_stdout = Host
    /\ saved = [s \in Sessions |-> Host]
    /\ capture = [s \in Sessions |-> <<>>]
    /\ hostout = {}
    /\ workers = [w \in Ids |-> Idle]
    /\ workq = <<>>
    /\ jobs = 0
    /\ result = [s \in Sessions |-> [what |-> "new", lines |-> 0]]
    /\ binders = {}

SessionInit ==
    /\ banner = "banner"
    /\ SessionStart

CompilerIdle ==
    /\ cbuf = <<>>
    /\ cres = "NONE"
    /\ ccode = <<>>
    /\ cprev = <<>>
    /\ cline = ""
    /\ cinput = {}

Init == SessionInit /\ CompilerIdle

Next ==
    \/ \E s \in Sessions : Factory(s)
    \/ \E s \in Sessions, c \in Transports : Connect(s, c)
    \/ \E s \in Sessions, c \in Transports : Drained(s, c)
    \/ \E s \in Sessions, c \in Transports : ReadFail(s, c)
    \/ \E s \in Sessions, line \in SessionLines, c \in Transports : ReadLine(s, line, c)
    \/ \E s \in Sessions, line \in SessionLines : Submit(s, line)
    \/ \E s \in Sessions, c \in Transports : InlineExec(s, c)
    \/ \E id \in Ids : WorkerStart(id)
    \/ \E id \in Ids : WorkerFinish(id)
    \/ \E s \in Sessions, c \in Transports : AwaitDone(s, c)
    \/ \E id \in Ids : FutureDone(id)
    \/ \E s \in Sessions : TimeoutFire(s)
    \/ \E id \in Ids : CancelQueued(id)
    \/ \E s \in Sessions, c \in Transports : TimeoutRaise(s, c)

Spec == Init /\ [][Next]_vars

(***************************************************************************)
(* Inline sessions with and without a banner.                              *)
(***************************************************************************)
BannerInit ==
    /\ banner \in Banners
    /\ SessionStart
    /\ CompilerIdle
    /\ ~threaded

BannerNext ==
    \/ \E s \in Sessions : Factory(s)
    \/ \E s \in Sessions, c \in Transports : Connect(s, c)
    \/ \E s \in Sessions, c \in Transports : Drained(s, c)
    \/ \E s \in Sessions, c \in Transports : ReadFail(s, c)
    \/ \E s \in Sessions, line \in SessionLines, c \in Transports : ReadLine(s, line, c)
    \/ \E s \in Sessions, line \in SessionLines : Submit(s, line)
    \/ \E s \in Sessions, c \in Transports : InlineExec(s, c)

BannerSpec == BannerInit /\ [][BannerNext]_vars

(***************************************************************************)
(* The standalone compiler's specification.                                *)
(***************************************************************************)
CompilerInit ==
    /\ cbuf = <<>>
    /\ cres = "NONE"
    /\ ccode = <<>>
    /\ cprev = <<>>
    /\ cline = ""
    /\ cinput \in InputSets
    /\ SessionInit
    /\ threaded = FALSE /\ shared = FALSE

CompilerFeed(line) ==
    /\ Len(cbuf) <= MaxBuf
    /\ LET r == Feed(cbuf, line) IN
         /\ cbuf' = r.buf
         /\ cres' = r.res
         /\ ccode' = r.code
    /\ cprev' = cbuf
    /\ cline' = line
    /\ UNCHANGED <<cinput, svars>>

CompilerReset ==
    /\ cbuf # <<>>
    /\ cbuf' = reset(cbuf)
    /\ cres' = "NONE"
    /\ ccode' = <<>>
    /\ cprev' = cbuf
    /\ cline' = ""
    /\ UNCHANGED <<cinput, svars>>

CompilerNext ==
    \/ \E line \in cinput : CompilerFeed(line)
    \/ CompilerReset

CompilerSpec == CompilerInit /\ [][CompilerNext]_vars

(***************************************************************************)
(* Properties                                                              *)
(***************************************************************************)
\* the work items of session s in the given states
WorkersOf(s, states) == {w \in Ids : w[1] = s /\ workers[w].st \in states}

\* exceptions raised by the evaluation of a command that derive from Exception
EvalExceptions == {"ZeroDivisionError", "NameError"}

\* where a session is once write_prompt has written the prompt: in its drain,
\* or in readline
Prompted == {"drain_prompt", "read"}

\* the response to a command is written, or the response and the next prompt
Answered == {"drain_response"} \cup Prompted

\* C1: no failure raised by the execution of a command leaves its session: the
\* host's event loop keeps running (and with it every other session), whatever
\* the command raised.
C1_FailuresContained == loop = "running" /\ \A s \in Sessions : pc[s] # "killed"

\* C2: when the evaluation of a command raised an exception and the client is
\* still connected, the session has written exactly the traceback and, once
\* the traceback is drained, the primary prompt; its buffer is empty, and it
\* is on its way to the next line or waiting for it (it is not closed).
C2_ExceptionReported ==
    \A s \in Sessions :
        (result[s].what \in EvalExceptions /\ conn[s] = "up") =>
            /\ pc[s] \in Answered
            /\ out[s] = IF pc[s] \in Prompted
                        THEN <<Traceback(result[s].what), Item("ps1")>>
                        ELSE <<Traceback(result[s].what)>>
            /\ ~is_partial_command(buf[s])

C2_Witness ==
    \E s \in Sessions :
        /\ result[s].what = "ZeroDivisionError"
        /\ conn[s] = "up"
        /\ pc[s] = "read"
        /\ out[s] = <<Traceback("ZeroDivisionError"), Item("ps1")>>

\* C3 as claimed: in one session at most one execution is running at any time,
\* also after timeouts.
C3_OneExecutionAtATime ==
    \A s \in Sessions : Cardinality(WorkersOf(s, {"running", "abandoned"})) <= 1

\* C3 amended: in one session at most one execution is queued or running that
\* has not been abandoned by a timeout; an execution of a later command has not
\* started while an earlier one is queued or running unabandoned; and without
\* timeouts (inline mode, or threaded mode with no timeout configured) at most
\* one execution of the session is running at any time.
C3_SerializedUntilTimeout ==
    \A s \in Sessions :
        /\ Cardinality(WorkersOf(s, {"queued", "running", "finished", "done"})) <= 1
        /\ pc[s] = "yield" =>
              WorkersOf(s, {"queued", "running", "finished", "done", "doomed", "abandoned"}) = {}
        /\ \A w1 \in WorkersOf(s, {"queued", "running", "finished", "done"}) :
             \A w2 \in WorkersOf(s, {"running", "doomed", "abandoned"}) \ {w1} :
                 workers[w2].st \in {"doomed", "abandoned"} /\ w2[2] < w1[2]
        /\ (~threaded \/ command_timeout = 0) =>
               Cardinality(WorkersOf(s, {"running", "abandoned"})) <= 1

C3_Witness ==
    \E s \in Sessions :
        /\ WorkersOf(s, {"abandoned"}) # {}
        /\ WorkersOf(s, {"running"}) # {}

\* C4: in threaded mode with a positive timeout, a submitted command that has
\* not yet been followed by a prompt can still get one: the event loop, which
\* delivers the worker's result or the timeout, is running.
C4_PromptStillComes ==
    \A s \in Sessions :
        (threaded /\ command_timeout > 0 /\ pc[s] \in {"await", "cancelling", "killed"}) =>
            loop = "running"

\* C5: nothing a worker produces after its command has timed out is written to
\* any client connection.
C5_NoLateOutput ==
    \A s \in Sessions : \A i \in 1..Len(out[s]) : ~out[s][i].late

\* C6: in isolated mode a session that has not assigned x itself sees the seed's
\* binding of x, whatever the other sessions have assigned, and the factory's
\* mapping is the seed; in shared mode, once any session has assigned x, every
\* session's commands see that binding.
C6_Isolation ==
    /\ ~shared =>
          /\ namespace[0] = Seed
          /\ \A t \in Sessions :
                t \notin binders => Lookup(namespace[NsOf(t)], builtins, "x") = Seed.x
    /\ shared =>
          \A t \in Sessions :
                binders # {} => Lookup(namespace[NsOf(t)], builtins, "x") = 5

C6_Witness ==
    /\ ~shared
    /\ binders = {1}
    /\ result[2].what = "returned"
    /\ Lookup(namespace[NsOf(1)], builtins, "x") = 5
    /\ Lookup(namespace[NsOf(2)], builtins, "x") = Seed.x

\* C7: fed to an empty buffer, a complete single-line input returns a code
\* object in that call and leaves the buffer empty.
C7_OneLine ==
    (cres # "NONE" /\ cprev = <<>> /\ Kind(cline) = "Simple") =>
        /\ cres = "CODE"
        /\ ccode = <<cline>>
        /\ ~is_partial_command(cbuf)

C7_Witness ==
    /\ cres = "CODE"
    /\ cprev = <<>>
    /\ cline = "import asyncio"
    /\ cbuf = <<>>

\* C8: for each block construct fed line by line to an empty buffer, every feed
\* of one of its lines returns PARTIAL and the buffer holds all lines fed so
\* far; the feed of a blank line after its last line returns a code object for
\* the whole text and empties the buffer.
C8_Blocks ==
    \A b \in Blocks :
        /\ \A i \in 1..Len(b) :
              (cres # "NONE" /\ cprev = SubSeq(b, 1, i - 1) /\ cline = b[i]) =>
                  /\ cres = "PARTIAL"
                  /\ cbuf = SubSeq(b, 1, i)
        /\ (cres # "NONE" /\ cprev = b /\ cline = "") =>
              /\ cres = "CODE"
              /\ ccode = Append(b, "")
              /\ cbuf = <<>>

C8_Witness ==
    /\ cres = "CODE"
    /\ cprev = <<"try:", "    raise Exception", "except:", "    pass">>
    /\ cline = ""
    /\ cbuf = <<>>

\* C9 as claimed: when feed fails with a SyntaxError the buffer is empty when
\* the failure reaches the caller.
C9_FeedClearsOnSyntaxError == cres = "SYN" => cbuf = <<>>

\* C9 amended: when feed fails with a SyntaxError the buffer still holds the
\* whole failed text, the earlier lines and the line just fed, when the failure
\* reaches the caller; only reset() empties it.
C9_FeedKeepsFailedText ==
    cres = "SYN" =>
        /\ is_partial_command(cbuf)
        /\ cbuf = BufWrite(cprev, cline)

C9_Witness ==
    /\ cres = "SYN"
    /\ cprev = <<"if False:">>
    /\ cline = "x = = 5"
    /\ cbuf = <<"if False:", "x = = 5">>

\* C10: when the line a session read made the compiler raise SyntaxError and the
\* client is still connected, the session has written the traceback and, once
\* the traceback is drained, the primary prompt; its buffer is empty (the next
\* line is compiled alone) and it is on its way to the next line or waiting
\* for it.
C10_SyntaxErrorReported ==
    \A s \in Sessions :
        (result[s].what = "SyntaxError" /\ conn[s] = "up") =>
            /\ pc[s] \in Answered
            /\ out[s] = IF pc[s] \in Prompted
                        THEN <<Traceback("SyntaxError"), Item("ps1")>>
                        ELSE <<Traceback("SyntaxError")>>
            /\ buf[s] = <<>>
            /\ \A line \in SessionLines : Feed(buf[s], line).buf \in {<<>>, <<line>>}

C10_Witness ==
    \E s \in Sessions :
        /\ result[s] = [what |-> "SyntaxError", lines |-> 2]
        /\ conn[s] = "up"
        /\ pc[s] = "read"
        /\ buf[s] = <<>>
        /\ out[s] = <<Traceback("SyntaxError"), Item("ps1")>>

\* the prompts
Prompts == {Item("ps1"), Item("ps2")}
Last(seq) == seq[Len(seq)]

\* C11: every prompt a session has written since its last read is the
\* continuation prompt if its buffer holds partial content and the primary
\* prompt otherwise; the prompt after a PARTIAL feed is the continuation prompt
\* and the prompt after a completed command is the primary prompt.
C11_PromptFollowsBuffer ==
    \A s \in Sessions :
        /\ \A i \in 1..Len(out[s]) :
              out[s][i] \in Prompts =>
                  out[s][i] = IF buf[s] # <<>> THEN Item("ps2") ELSE Item("ps1")
        /\ (pc[s] \in Prompted /\ result[s].what = "partial") => Last(out[s]) = Item("ps2")
        /\ (pc[s] \in Prompted /\ result[s].what = "returned") => Last(out[s]) = Item("ps1")

C11_Witness ==
    \E s \in Sessions :
        /\ pc[s] = "read"
        /\ result[s].what = "partial"
        /\ is_partial_command(buf[s])
        /\ out[s] = <<Item("ps2")>>

\* C12: a session waiting for a line (or still draining its prompt) has
\* written exactly one prompt since its previous read, and that prompt is the
\* last thing it wrote (the whole response comes before it); a session that
\* drains its banner or its response has written no prompt yet; between
\* reading a line and the end of its execution it writes nothing.
C12_PromptReadRespond ==
    \A s \in Sessions :
        /\ pc[s] \in Prompted =>
              /\ out[s] # <<>>
              /\ Last(out[s]) \in Prompts
              /\ \A i \in 1..(Len(out[s]) - 1) : out[s][i] \notin Prompts
        /\ pc[s] \in {"drain_banner", "drain_response"} =>
              \A i \in 1..Len(out[s]) : out[s][i] \notin Prompts
        /\ pc[s] \in {"new", "created", "yield", "await", "cancelling"} => out[s] = <<>>

C12_Witness ==
    \E s \in Sessions :
        /\ pc[s] = "read"
        /\ result[s].what = "returned"
        /\ out[s] = <<Text("print", <<s, 1>>, FALSE), Item("ps1")>>

\* the values and captured texts of test_send_output
Values == {"None", "5"}
Stdouts == {<<>>, <<Text("print", <<1, 1>>, FALSE)>>}

\* C13: send_output writes the representation of the value if and only if the
\* value is not None, then the captured text if there is any, and nothing else
\* before the next prompt; and what a connected session has written after a
\* command that returned is captured text, followed by the primary prompt once
\* that text is drained.
C13_Response ==
    /\ \A value \in Values, stdout \in Stdouts :
          send_output([pc |-> "read", out |-> <<>>, buf |-> <<>>], "up", value, stdout).out
             = (IF value = "None" THEN <<>> ELSE <<Item(value)>>) \o stdout
                  \o <<Item("ps1")>>
    /\ \A s \in Sessions :
          (result[s].what = "returned" /\ conn[s] = "up") =>
              /\ pc[s] \in Answered
              /\ pc[s] \in Prompted => (out[s] # <<>> /\ Last(out[s]) = Item("ps1"))
              /\ \A i \in 1..(Len(out[s]) - (IF pc[s] \in Prompted THEN 1 ELSE 0)) :
                    out[s][i].t \in {"print", "repr"}

C13_Witness ==
    \E s \in Sessions :
        /\ result[s].what = "returned"
        /\ conn[s] = "up"
        /\ pc[s] = "read"
        /\ out[s] = <<Text("repr", <<s, 1>>, FALSE), Item("ps1")>>

\* C14: what a session has written when it has written its first prompt is the
\* banner and the primary prompt if a banner is configured, and the primary
\* prompt alone if none is; before that prompt it has written the banner
\* alone; the banner is written at no other place.
C14_BannerOnce ==
    \A s \in Sessions :
        /\ result[s].what = "connected" =>
              CASE pc[s] \in {"drain_banner", "died"} -> out[s] = <<Item("banner")>>
                [] pc[s] \in Prompted \cup {"closed"} ->
                      out[s] = IF banner = "" THEN <<Item("ps1")>>
                               ELSE <<Item("banner"), Item("ps1")>>
                [] OTHER -> pc[s] = "spin"
        /\ \A i \in 1..Len(out[s]) :
              out[s][i] = Item("banner") => (i = 1 /\ reads[s] = 0 /\ banner # "")

C14_Witness ==
    \E s \in Sessions :
        /\ banner # ""
        /\ reads[s] = 1
        /\ pc[s] = "read"
        /\ out[s] = <<Item("ps1")>>

\* C15: a read that returns end-of-stream leaves the session closed, with
\* nothing written, whatever its buffer holds; a closed session stays closed,
\* writes nothing, reads nothing and starts no execution; and reading a line,
\* also an empty one, from a live transport does not close the session.
C15_EndOfStream ==
    [][\A s \in Sessions :
          /\ result'[s].what = "eof" => (pc'[s] = "closed" /\ out'[s] = <<>>)
          /\ pc[s] = "closed" =>
                /\ pc'[s] = "closed"
                /\ out'[s] = out[s]
                /\ reads'[s] = reads[s]
                /\ code'[s] = code[s]
                /\ \A n \in 1..MaxReads :
                      workers'[<<s, n>>].st = "queued" => workers[<<s, n>>].st = "queued"
          /\ (pc[s] = "read" /\ reads'[s] = reads[s] + 1 /\ conn'[s] = "up") =>
                pc'[s] # "closed"]_vars

C15_Witness ==
    \E s \in Sessions :
        /\ result[s].what = "eof"
        /\ pc[s] = "closed"
        /\ is_partial_command(buf[s])

\* C16: a session in which an exception occurred that is neither a failure of
\* executed code, nor a SyntaxError, nor a connection reset (here: the
\* UnicodeDecodeError of the compiler's decode) is closed: it has written no
\* further prompt and waits for no further line.
C16_FaultCloses ==
    \A s \in Sessions :
        result[s].what = "UnicodeDecodeError" =>
            /\ pc[s] = "closed"
            /\ \A i \in 1..Len(out[s]) : out[s][i] \notin Prompts

\* C17: the last result is bound in the executing session's own namespace: in
\* isolated mode the reserved name _ has no value for a session that has not
\* executed anything, whatever the other sessions have evaluated.
C17_LastResultIsolated ==
    ~shared =>
        \A t \in Sessions :
            reads[t] = 0 => Lookup(namespace[NsOf(t)], builtins, "_") = Unset

\* C18: in isolated mode the factory's seed mapping keeps the bindings it was
\* given, and a session that has just connected has exactly the seed's
\* bindings, whatever the other sessions have bound.
C18_SeedUnchanged ==
    ~shared =>
        /\ namespace[0] = Seed
        /\ \A s \in Sessions :
              (pc[s] = "created" \/ result[s].what = "connected") => namespace[s] = Seed

C18_Witness ==
    /\ ~shared
    /\ binders = {1}
    /\ namespace[1].x = 5
    /\ result[2].what = "connected"
    /\ namespace[2] = Seed
    /\ namespace[0] = Seed

\* C19: every text a session has written to its client was written to standard
\* output by a command of that session, and no command's text has gone to the
\* host's real standard output.
C19_OwnOutputOnly ==
    /\ hostout = {}
    /\ \A s \in Sessions : \A i \in 1..Len(out[s]) : out[s][i].w[1] \in {0, s}

\* C20: a session whose transport was found lost (end-of-stream, connection
\* reset or broken pipe) while it read a line or wrote a prompt, a response or
\* a diagnostic is closed, unless a process-exit request ended it: it does not
\* go on prompting.
C20_WriteFailureCloses ==
    \A s \in Sessions :
        (conn[s] = "lost" /\ pc[s] \notin {"killed", "died"}) => pc[s] = "closed"

\* C21: a session's buffer holds only lines the session itself has read (never
\* more lines than it has read), and nothing a session has written to its
\* client was produced by a command of another session.
C21_OwnBufferAndTransport ==
    \A s \in Sessions :
        /\ Len(buf[s]) <= reads[s]
        /\ \A t \in Sessions \ {s} :
              \A i \in 1..Len(out[t]) : out[t][i].w[1] # s

\* C22: whenever no session is inside the capture window of an execution (none
\* is suspended in attempt_exec), the process-wide sys.stdout is the host's
\* original standard output.
C22_RedirectBalanced ==
    (\A s \in Sessions : pc[s] \notin {"yield", "await", "cancelling"}) => sys_stdout = Host

\* C23: when the feed of a line has failed, with a SyntaxError or with the
\* UnicodeDecodeError of the decode, the session's buffer is empty when the
\* session waits for its next line.
C23_BufferEmptyAfterFailure ==
    \A s \in Sessions :
        (pc[s] = "read" /\ result[s].what \in {"SyntaxError", "UnicodeDecodeError"}) =>
            ~is_partial_command(buf[s])

====
